---- MODULE Spec2Model ----
(***************************************************************************)
(* One run of streamlit_app.py, top to bottom: load the CSV, normalise it, *)
(* fetch a quote and fundamentals per row, value the portfolio, project    *)
(* the dividend events, render the metrics and the monthly calendar.       *)
(*                                                                         *)
(* Floats are modelled as exact rationals with the IEEE specials the code  *)
(* can produce (NaN, +/-inf); binary rounding error is not modelled.       *)
(* The Name column is kept only as far as it decides control flow (a       *)
(* missing column raises); the text of its cells is not modelled.          *)
(***************************************************************************)
EXTENDS Integers, Sequences, FiniteSets, TLC

\* ------------------------------------------------------------------ bounds
\* Largest number of data rows of the pasted/uploaded CSV.
MaxRows == 2

\* ------------------------------------------------------------------ floats
NaN == [kind |-> "nan", num |-> 0, den |-> 1]
PosInf == [kind |-> "inf", num |-> 1, den |-> 1]
NegInf == [kind |-> "inf", num |-> -1, den |-> 1]

Abs(n) == IF n < 0 THEN -n ELSE n

RECURSIVE Gcd(_, _)
Gcd(a, b) == IF b = 0 THEN a ELSE Gcd(b, a % b)

\* The rational n/d in lowest terms with a positive denominator (d # 0).
Rat(n, d) ==
    LET g == Gcd(Abs(n), Abs(d))
        s == IF d < 0 THEN -1 ELSE 1
    IN  [kind |-> "num", num |-> (s * n) \div g, den |-> (s * d) \div g]

Num(n) == Rat(n, 1)
Zero == Num(0)

IsNum(x) == x.kind = "num"
IsNaN(x) == x.kind = "nan"

\* x > 0 and x == 0 as Python/numpy compare floats: False for NaN.
GtZero(x) == x.kind # "nan" /\ x.num > 0
IsZero(x) == x.kind = "num" /\ x.num = 0

\* Only finite operands and NaN reach these in the program.  The factors are
\* cancelled crosswise first, which keeps the intermediate products small.
Mul(x, y) ==
    IF IsNum(x) /\ IsNum(y)
    THEN LET g1 == Gcd(Abs(x.num), y.den)
             g2 == Gcd(Abs(y.num), x.den)
         IN  Rat((x.num \div g1) * (y.num \div g2), (x.den \div g2) * (y.den \div g1))
    ELSE NaN

Add(x, y) ==
    IF IsNum(x) /\ IsNum(y)
    THEN LET g == Gcd(x.den, y.den)
         IN  Rat(x.num * (y.den \div g) + y.num * (x.den \div g), (x.den \div g) * y.den)
    ELSE NaN

\* Float division as pandas/numpy do it: 0/0 is NaN, x/0 is +/-inf, nothing raises.
FloatDiv(x, y) ==
    IF ~(IsNum(x) /\ IsNum(y)) THEN NaN
    ELSE IF y.num # 0 THEN Mul(x, Rat(y.den, y.num))
    ELSE IF x.num = 0 THEN NaN
    ELSE IF x.num > 0 THEN PosInf ELSE NegInf

\* Python's round(x, digits): to the nearest multiple of 10^-digits, ties to even;
\* round(nan, digits) is nan.
Pow10(k) == IF k = 4 THEN 10000 ELSE IF k = 2 THEN 100 ELSE 1

PyRound(x, digits) ==
    IF ~IsNum(x) THEN x
    ELSE LET s == Pow10(digits)
             n == x.num * s
             q == n \div x.den
             r == n % x.den
         IN  IF 2 * r > x.den \/ (2 * r = x.den /\ q % 2 = 1)
             THEN Rat(q + 1, s)
             ELSE Rat(q, s)

\* pandas Series.sum(): skipna, so NaN entries count as 0 and the empty sum is 0.
RECURSIVE SumSkipNa(_)
SumSkipNa(s) ==
    IF s = <<>> THEN Zero
    ELSE LET h == Head(s)
         IN  Add(IF IsNaN(h) THEN Zero ELSE h, SumSkipNa(Tail(s)))

\* Series.dot(): numpy dot of the raw values, NaN propagates.
RECURSIVE Dot(_, _)
Dot(a, b) ==
    IF a = <<>> THEN Zero ELSE Add(Mul(Head(a), Head(b)), Dot(Tail(a), Tail(b)))

\* Series.mean(): skipna; the mean of no values is NaN.
NonNa(s) == SelectSeq(s, LAMBDA x : ~IsNaN(x))
Mean(s) == FloatDiv(SumSkipNa(s), Num(Len(NonNa(s))))

\* ------------------------------------------------------------------- dates
Date(y, m, d) == [year |-> y, month |-> m, day |-> d]

\* Days since 1970-01-01 in the proleptic Gregorian calendar.
Ordinal(dt) ==
    LET y   == IF dt.month <= 2 THEN dt.year - 1 ELSE dt.year
        era == y \div 400
        yoe == y - era * 400
        mp  == (dt.month + 9) % 12
        doy == (153 * mp + 2) \div 5 + dt.day - 1
        doe == yoe * 365 + yoe \div 4 - yoe \div 100 + doy
    IN  era * 146097 + doe - 719468

MonthLabels ==
    <<"Jan", "Feb", "Mar", "Apr", "May", "Jun",
      "Jul", "Aug", "Sep", "Oct", "Nov", "Dec">>

\* datetime.strptime(m, "%b").month
MonthNum(m) == CHOOSE k \in 1..12 : MonthLabels[k] = m

\* x.strftime("%b %Y"): the month's label and the year; the day is dropped.
MonthYearLabel(dt) == [mon |-> MonthLabels[dt.month], year |-> dt.year]

\* ------------------------------------------------------------------ inputs
RequiredCols == {"Slice", "Name", "Value", "Owned quantity"}

\* Cells of the Slice column: two scheduled tickers, one unscheduled, the total row.
Slices == {"BP", "LGEN", "ZZ", "Total"}

\* Cells of the numeric columns as text, and what pd.to_numeric reads in them.
Parsed == ("1" :> 1) @@ ("-1" :> -1) @@ ("250" :> 250)
RawQuantities == {"1", "-1", "n/a"}
RawValues == {"250"}

RawRows == [Slice : Slices, Value : RawValues, quantity : RawQuantities]

RECURSIVE SeqsUpTo(_, _)
SeqsUpTo(S, n) ==
    IF n = 0 THEN {<<>>}
    ELSE LET shorter == SeqsUpTo(S, n - 1)
         IN  shorter \cup {Append(s, x) : s \in {t \in shorter : Len(t) = n - 1}, x \in S}

\* A CSV text: the columns of its header and its data rows.  Either every required
\* column is there or exactly one is missing.
ColumnSets == {RequiredCols} \cup {RequiredCols \ {c} : c \in RequiredCols}
Csvs == [cols : ColumnSets, rows : SeqsUpTo(RawRows, MaxRows)]

\* The uploads tried: the same texts, up to one data row.
Uploads == {csv \in Csvs : Len(csv.rows) <= 1}

\* text_input "" / uploaded_file None
NoCsv == [cols |-> {}, rows |-> <<>>]
IsGiven(csv) == csv # NoCsv

\* What the quote endpoint can answer: a failure (network, JSON, missing key), or
\* a chart with regularMarketPrice and previousClose.
QuoteResponses ==
    { [kind |-> "error", price |-> Zero, previous |-> Zero],
      [kind |-> "ok", price |-> Rat(130004, 100000), previous |-> Rat(13, 10)] }

\* What the fundamentals endpoint can answer: a failure, or the two JSON lists
\* (either may be empty).
NoRating == <<>>
BuyRating == <<[recommendation |-> "buy", priceTarget |-> Num(5)]>>
FundResponses ==
    { [kind |-> "error", rating |-> NoRating, quote |-> <<>>],
      [kind |-> "ok", rating |-> NoRating, quote |-> <<>>],
      [kind |-> "ok", rating |-> NoRating,
       quote |-> <<[price |-> Zero, lastDiv |-> Rat(7, 100)]>>],
      [kind |-> "ok", rating |-> BuyRating,
       quote |-> <<[price |-> Num(3), lastDiv |-> Rat(7, 100)]>>] }

\* ------------------------------------------------------------------- state
VARIABLES
    pc,             \* where the script is: the next section to run, or how it ended
    err,            \* the exception that ended the run, "" if none
    text_input,     \* the pasted CSV
    uploaded_file,  \* the uploaded CSV
    df,             \* the holdings frame: a sequence of rows, each with its index label
    prices,         \* the fetch loop's list of per-row results
    progress,       \* every value handed to progress.progress, in order
    price_cache,    \* get_live_price's memo: ticker -> result
    fund_cache,     \* get_analyst_and_yield's memo: ticker -> result
    quote_calls,    \* requests sent to the quote endpoint
    fund_calls,     \* requests sent to the fundamentals endpoint
    total_now,
    total_cost,
    candidates,     \* the forecast loop's locals, one entry per (row, month) it visits
    div_df,         \* the dividend events, sorted by Date
    metrics,        \* what the four st.metric calls were handed
    monthly,        \* the calendar's month label -> summed amount
    today           \* the forecast's reference date

vars ==
    << pc, err, text_input, uploaded_file, df, prices, progress, price_cache,
       fund_cache, quote_calls, fund_calls, total_now, total_cost, candidates,
       div_df, metrics, monthly, today >>

Init ==
    /\ pc = "load"
    /\ err = ""
    /\ \/ text_input \in Csvs /\ uploaded_file = NoCsv
       \/ text_input = NoCsv /\ uploaded_file \in Uploads
       \/ text_input = NoCsv /\ uploaded_file = NoCsv
    /\ today = Date(2025, 11, 21)
    /\ df = <<>>
    /\ prices = <<>>
    /\ progress = <<>>
    /\ price_cache = <<>>
    /\ fund_cache = <<>>
    /\ quote_calls = 0
    /\ fund_calls = 0
    /\ total_now = Zero
    /\ total_cost = Zero
    /\ candidates = <<>>
    /\ div_df = <<>>
    /\ metrics = <<>>
    /\ monthly = <<>>

\* ------------------------------------------------------- 1. load, normalise
\* pd.read_csv: one frame row per data row, labelled 0, 1, 2, ...
ReadCsv(csv) ==
    [i \in 1..Len(csv.rows) |->
        [label |-> i - 1, Slice |-> csv.rows[i].Slice,
         Value |-> csv.rows[i].Value, quantity |-> csv.rows[i].quantity]]

\* pd.to_numeric(..., errors='coerce')
ToNumeric(cell) == IF cell \in DOMAIN Parsed THEN Num(Parsed[cell]) ELSE NaN

\* A slip: the Name column is only read after the fetch loop.
MissingColumnsNameLate(cols) == (RequiredCols \ {"Name"}) \ cols

\* Lines 28-32 read df["Slice"], df["Value"], df["Owned quantity"], df["Name"];
\* the first that is no column raises KeyError.
MissingColumns(cols) == RequiredCols \ cols

\* Lines 28-31 on the rows: drop Slice == "Total" (labels are kept), coerce the
\* numeric columns, add Ticker.
TickerOf(slice) == <<slice, ".L">>

NormalizeRows(rows) ==
    LET kept == SelectSeq(rows, LAMBDA r : r.Slice # "Total")
    IN  [i \in 1..Len(kept) |->
            [label |-> kept[i].label, Slice |-> kept[i].Slice,
             Ticker |-> TickerOf(kept[i].Slice),
             Value |-> ToNumeric(kept[i].Value),
             quantity |-> ToNumeric(kept[i].quantity)]]

Halt(how, exception) ==
    /\ pc' = how
    /\ err' = exception

\* Lines 19-26.
Load ==
    /\ pc = "load"
    /\ IF IsGiven(text_input)
       THEN /\ df' = ReadCsv(text_input)
            /\ pc' = "normalize"
            /\ err' = err
       ELSE IF IsGiven(uploaded_file)
       THEN /\ df' = ReadCsv(uploaded_file)
            /\ pc' = "normalize"
            /\ err' = err
       ELSE /\ Halt("stopped", "")
            /\ df' = df
    /\ UNCHANGED << text_input, uploaded_file, prices, progress, price_cache,
                    fund_cache, quote_calls, fund_calls, total_now, total_cost,
                    candidates, div_df, metrics, monthly, today >>

\* The header of the frame that was read.
Columns == IF IsGiven(text_input) THEN text_input.cols ELSE uploaded_file.cols

\* Lines 28-32, then lines 76-79 (the empty lists and the progress bar at 0).
Normalize ==
    /\ pc = "normalize"
    /\ IF MissingColumns(Columns) # {}
       THEN /\ Halt("error", "KeyError")
            /\ df' = df
       ELSE /\ df' = NormalizeRows(df)
            /\ pc' = IF NormalizeRows(df) = <<>> THEN "value" ELSE "fetch"
            /\ err' = err
    /\ UNCHANGED << text_input, uploaded_file, prices, progress, price_cache,
                    fund_cache, quote_calls, fund_calls, total_now, total_cost,
                    candidates, div_df, metrics, monthly, today >>

\* ------------------------------------------------------ 2, 3. the providers
\* get_live_price, lines 36-46: the bare except turns every failure into (0.0, 0.0).
get_live_price(resp) ==
    IF resp.kind = "ok"
    THEN <<PyRound(resp.price, 4), PyRound(resp.previous, 4)>>
    ELSE <<Zero, Zero>>

\* str.title() on the recommendations the endpoint sends.
Title(s) == IF s = "buy" THEN "Buy" ELSE s

\* get_analyst_and_yield, lines 50-73; None is kept as NaN, as the frame does.
get_analyst_and_yield(resp) ==
    IF resp.kind # "ok"
    THEN [rec |-> "N/A", target |-> NaN, yield_pct |-> Zero]
    ELSE LET rec    == IF resp.rating # <<>>
                       THEN Title(resp.rating[1].recommendation) ELSE "N/A"
             target == IF resp.rating # <<>> THEN resp.rating[1].priceTarget ELSE NaN
             yield_ == IF resp.quote # <<>>
                       THEN LET price == resp.quote[1].price
                                div   == Mul(resp.quote[1].lastDiv, Num(4))
                            IN  IF GtZero(price) THEN FloatDiv(div, price) ELSE Zero
                       ELSE Zero
         IN  [rec |-> rec, target |-> target,
              yield_pct |-> PyRound(Mul(yield_, Num(100)), 2)]

\* st.progress accepts a float only in [0.0, 1.0] and raises otherwise.
ProgressAccepts(v) == IsNum(v) /\ 0 <= v.num /\ v.num <= v.den

\* Line 90: the row's index label, not its position, goes into the fraction.
ProgressValue(label, n) == FloatDiv(Num(label + 1), Num(n))

\* One iteration of the loop of lines 81-90.  st.cache_data answers a ticker already
\* asked in this run from its memo, without a request.
FetchRow ==
    /\ pc = "fetch"
    /\ Len(prices) < Len(df)
    /\ LET row == df[Len(prices) + 1]
           v   == ProgressValue(row.label, Len(df))
       IN  /\ \E q \in QuoteResponses, f \in FundResponses :
                 LET hitQ  == row.Ticker \in DOMAIN price_cache
                     hitF  == row.Slice \in DOMAIN fund_cache
                     quote == IF hitQ THEN price_cache[row.Ticker] ELSE get_live_price(q)
                     fund  == IF hitF THEN fund_cache[row.Slice]
                              ELSE get_analyst_and_yield(f)
                 IN  /\ price_cache' = IF hitQ THEN price_cache
                                       ELSE (row.Ticker :> quote) @@ price_cache
                     /\ fund_cache' = IF hitF THEN fund_cache
                                      ELSE (row.Slice :> fund) @@ fund_cache
                     /\ quote_calls' = IF hitQ THEN quote_calls ELSE quote_calls + 1
                     /\ fund_calls' = IF hitF THEN fund_calls ELSE fund_calls + 1
                     /\ prices' = Append(prices,
                           [price |-> quote[1],
                            yield |-> FloatDiv(fund.yield_pct, Num(100)),
                            target |-> fund.target, consensus |-> fund.rec])
           /\ progress' = Append(progress, v)
           /\ IF ~ProgressAccepts(v)
              THEN Halt("error", "StreamlitAPIException")
              ELSE /\ pc' = IF Len(prices) + 1 = Len(df) THEN "value" ELSE "fetch"
                   /\ err' = err
    /\ UNCHANGED << text_input, uploaded_file, df, total_now, total_cost, candidates,
                    div_df, metrics, monthly, today >>

\* ------------------------------------------------------------ valuation
Column(frame, name) == [i \in 1..Len(frame) |-> frame[i][name]]

\* Lines 92-97 on the rows: reset the index, join the fetched columns, derive
\* Market Value, Unrealised and Weight.
Enrich(frame, live) ==
    LET mv(i) == Mul(live[i].price, frame[i].quantity)
        total == SumSkipNa([i \in 1..Len(frame) |-> mv(i)])
    IN  [i \in 1..Len(frame) |->
            [label |-> i - 1, Slice |-> frame[i].Slice, Ticker |-> frame[i].Ticker,
             Value |-> frame[i].Value, quantity |-> frame[i].quantity,
             price |-> live[i].price, yield |-> live[i].yield,
             target |-> live[i].target, consensus |-> live[i].consensus,
             MarketValue |-> mv(i),
             Unrealised |-> Add(mv(i), Mul(Num(-1), frame[i].Value)),
             Weight |-> FloatDiv(mv(i), total)]]

\* Lines 92-99.  With no rows the fetched frame has no columns and df["price"]
\* raises KeyError.
Valuate ==
    /\ pc = "value"
    /\ IF df = <<>>
       THEN /\ Halt("error", "KeyError")
            /\ UNCHANGED << df, total_now, total_cost >>
       ELSE /\ df' = Enrich(df, prices)
            /\ total_now' = SumSkipNa(Column(df', "MarketValue"))
            /\ total_cost' = SumSkipNa(Column(df, "Value"))
            /\ pc' = "forecast"
            /\ err' = err
    /\ UNCHANGED << text_input, uploaded_file, prices, progress, price_cache,
                    fund_cache, quote_calls, fund_calls, candidates, div_df, metrics,
                    monthly, today >>

\* ------------------------------------------------- 4. dividend forecast
\* Lines 103-116.
known_div_schedule ==
    ("BP"   :> <<"Mar", "Jun", "Sep", "Dec">>) @@
    ("AV"   :> <<"May", "Oct">>) @@
    ("NG"   :> <<"Jun", "Dec">>) @@
    ("MNG"  :> <<"Apr", "Sep">>) @@
    ("LGEN" :> <<"Mar", "Jun", "Sep", "Nov">>) @@
    ("SHEL" :> <<"Mar", "Jun", "Sep", "Dec">>) @@
    ("RIO"  :> <<"Mar", "Sep">>) @@
    ("HSBA" :> <<"Mar", "Jun", "Sep", "Dec">>) @@
    ("BATS" :> <<"Mar", "Jun", "Sep", "Dec">>) @@
    ("IMB"  :> <<"Mar", "Sep">>) @@
    ("GLEN" :> <<"Jun", "Dec">>)

PayDay == 15
WindowDays == 365
DefaultYield == Rat(4, 100)

\* A slip: the "annual/4 assumption" of line 115 applied to unlisted tickers.
MonthsOfQuarterlyDefault(ticker) ==
    IF ticker \in DOMAIN known_div_schedule THEN known_div_schedule[ticker]
    ELSE <<"Mar", "Jun", "Sep", "Dec">>

\* known_div_schedule.get(ticker, None), with "if months:" folded in: no months
\* for a ticker that is no key.
MonthsOf(ticker) ==
    IF ticker \in DOMAIN known_div_schedule THEN known_div_schedule[ticker] ELSE <<>>

\* A slip: the year advanced once only.
ResolveYearOnce(month_num, t) ==
    IF month_num > t.month THEN t.year ELSE t.year + 1

\* Lines 130-132.
ResolveYear(month_num, t) ==
    LET year == IF month_num > t.month THEN t.year ELSE t.year + 1
    IN  IF month_num < t.month THEN year + 1 ELSE year

\* A slip: the upper end of the window left out.
InWindowNoUpper(pay_date, t) == Ordinal(t) <= Ordinal(pay_date)

\* Line 134: today <= pay_date <= today + timedelta(days=365).
InWindow(pay_date, t) ==
    /\ Ordinal(t) <= Ordinal(pay_date)
    /\ Ordinal(pay_date) <= Ordinal(t) + WindowDays

\* Lines 129-134 for every month of a ticker: the loop's locals.
Candidates(ticker, t) ==
    LET months == MonthsOf(ticker)
    IN  [k \in 1..Len(months) |->
            LET month_num == MonthNum(months[k])
                year      == ResolveYear(month_num, t)
                pay_date  == Date(year, month_num, PayDay)
            IN  [Ticker |-> ticker, m |-> months[k], month_num |-> month_num,
                 year |-> year, pay_date |-> pay_date,
                 included |-> InWindow(pay_date, t)]]

\* Lines 123-124 and 135-136: the amount of one event of a row.
Amount(row, nmonths) ==
    LET last_annual == Mul(row.price,
                           IF GtZero(row.yield) THEN row.yield ELSE DefaultYield)
        quarterly   == FloatDiv(last_annual, Num(4))
    IN  PyRound(Mul(Mul(quarterly, row.quantity), FloatDiv(Num(4), Num(nmonths))), 2)

\* The events one row appends to future_divs.
RowEvents(row, t) ==
    LET cs   == Candidates(row.Slice, t)
        kept == SelectSeq(cs, LAMBDA c : c.included)
    IN  [k \in 1..Len(kept) |->
            [Date |-> kept[k].pay_date, Ticker |-> row.Slice,
             Amount |-> Amount(row, Len(cs))]]

RECURSIVE Flatten(_)
Flatten(ss) == IF ss = <<>> THEN <<>> ELSE Head(ss) \o Flatten(Tail(ss))

\* sort_values("Date"): ascending; rows with equal dates keep their order (the
\* frames here are short enough for numpy's insertion sort).
RECURSIVE InsertByDate(_, _)
InsertByDate(sorted, e) ==
    IF sorted = <<>> THEN <<e>>
    ELSE LET last == sorted[Len(sorted)]
         IN  IF Ordinal(last.Date) <= Ordinal(e.Date)
             THEN Append(sorted, e)
             ELSE Append(InsertByDate(SubSeq(sorted, 1, Len(sorted) - 1), e), last)

RECURSIVE SortByDate(_)
SortByDate(es) ==
    IF es = <<>> THEN <<>>
    ELSE InsertByDate(SortByDate(SubSeq(es, 1, Len(es) - 1)), es[Len(es)])

\* Lines 118-138: the loop over the rows, then the sort.
Forecast ==
    /\ pc = "forecast"
    /\ candidates' = Flatten([i \in 1..Len(df) |-> Candidates(df[i].Slice, today)])
    /\ div_df' = SortByDate(Flatten([i \in 1..Len(df) |-> RowEvents(df[i], today)]))
    /\ pc' = "display"
    /\ UNCHANGED << err, text_input, uploaded_file, df, prices, progress, price_cache,
                    fund_cache, quote_calls, fund_calls, total_now, total_cost,
                    metrics, monthly, today >>

\* ------------------------------------------------------------- display
\* What a format spec such as ",.0f" or ".2%" does to its operand: a float
\* (nan and inf too) formats, a Series raises TypeError.
Scalar(x) == [kind |-> "scalar", value |-> x]
Series(xs) == [kind |-> "series", values |-> xs]
Formats(operand) == operand.kind = "scalar"

\* Line 143: df['Market Value'].dot(df['yield']) / total_now
ForwardYield(frame, total) ==
    Scalar(FloatDiv(Dot(Column(frame, "MarketValue"), Column(frame, "yield")), total))

\* Line 144, the f-string's operand: df['Market Value'] * df['yield'].mean()
ExpectedDivs(frame) ==
    LET mean == Mean(Column(frame, "yield"))
    IN  Series([i \in 1..Len(frame) |-> Mul(frame[i].MarketValue, mean)])

\* Lines 141-154.  The metrics are handed over in order; the literal "£0" is kept
\* as the number it shows.
Display ==
    /\ pc = "display"
    /\ LET c1 == [label |-> "Portfolio Value", value |-> total_now]
           c2 == [label |-> "Est. Forward Yield",
                  value |-> ForwardYield(df, total_now).value]
           c3 == [label |-> "Expected Divs Next 12m", value |-> Zero]
           c4 == [label |-> "Holdings", value |-> Num(Len(df))]
       IN  IF GtZero(total_now) /\ ~Formats(ExpectedDivs(df))
           THEN /\ metrics' = <<c1, c2>>
                /\ Halt("error", "TypeError")
           ELSE /\ metrics' = <<c1, c2, c3, c4>>
                /\ pc' = "calendar"
                /\ err' = err
    /\ UNCHANGED << text_input, uploaded_file, df, prices, progress, price_cache,
                    fund_cache, quote_calls, fund_calls, total_now, total_cost,
                    candidates, div_df, monthly, today >>

\* ------------------------------------------------------------ calendar
\* A slip: a later event of a month replaces the earlier ones (last() for sum()).
RECURSIVE GroupLast(_, _)
GroupLast(events, acc) ==
    IF events = <<>> THEN acc
    ELSE LET e   == Head(events)
             key == MonthYearLabel(e.Date)
             amt == IF IsNaN(e.Amount) THEN Zero ELSE e.Amount
         IN  GroupLast(Tail(events),
                       IF key \in DOMAIN acc
                       THEN [acc EXCEPT ![key] = amt]
                       ELSE (key :> amt) @@ acc)

\* groupby(label)["Amount"].sum(): one entry per label, NaN amounts skipped.
RECURSIVE GroupSum(_, _)
GroupSum(events, acc) ==
    IF events = <<>> THEN acc
    ELSE LET e   == Head(events)
             key == MonthYearLabel(e.Date)
             amt == IF IsNaN(e.Amount) THEN Zero ELSE e.Amount
         IN  GroupSum(Tail(events),
                      IF key \in DOMAIN acc
                      THEN [acc EXCEPT ![key] = Add(@, amt)]
                      ELSE (key :> amt) @@ acc)

\* Line 158.
Monthly(events) == GroupSum(events, <<>>)

\* Lines 156-164.
Calendar ==
    /\ pc = "calendar"
    /\ monthly' = IF div_df # <<>> THEN Monthly(div_df) ELSE monthly
    /\ pc' = "done"
    /\ UNCHANGED << err, text_input, uploaded_file, df, prices, progress, price_cache,
                    fund_cache, quote_calls, fund_calls, total_now, total_cost,
                    candidates, div_df, metrics, today >>

Next == Load \/ Normalize \/ FetchRow \/ Valuate \/ Forecast \/ Display \/ Calendar

Spec == Init /\ [][Next]_vars

\* ------------------------------------------- the scheduler on other dates
\* Candidates is a function of the ticker and the reference date alone.  ClockSpec
\* runs it for every listed ticker on reference dates other than the literal of
\* line 119.
RefDates == {Date(y, m, d) : y \in {2024, 2025}, m \in 1..12, d \in {1, 15, 21}}

ClockInit ==
    /\ pc = "clock"
    /\ err = ""
    /\ text_input = NoCsv
    /\ uploaded_file = NoCsv
    /\ df = <<>>
    /\ prices = <<>>
    /\ progress = <<>>
    /\ price_cache = <<>>
    /\ fund_cache = <<>>
    /\ quote_calls = 0
    /\ fund_calls = 0
    /\ total_now = Zero
    /\ total_cost = Zero
    /\ candidates = <<>>
    /\ div_df = <<>>
    /\ metrics = <<>>
    /\ monthly = <<>>
    /\ today \in RefDates

ResolveSchedule ==
    /\ pc = "clock"
    /\ \E ticker \in DOMAIN known_div_schedule :
          candidates' = Candidates(ticker, today)
    /\ pc' = "resolved"
    /\ UNCHANGED << err, text_input, uploaded_file, df, prices, progress, price_cache,
                    fund_cache, quote_calls, fund_calls, total_now, total_cost,
                    div_df, metrics, monthly, today >>

ClockSpec == ClockInit /\ [][ResolveSchedule]_vars

\* ------------------------------------------------------------ properties
\* Where a run is.
Normalized ==
    /\ pc \notin {"load", "normalize", "stopped", "clock", "resolved"}
    /\ ~(pc = "error" /\ ~(RequiredCols \subseteq Columns))
Valued ==
    pc \in {"forecast", "display", "calendar", "done"} \/ (pc = "error" /\ err = "TypeError")
Forecasted ==
    pc \in {"display", "calendar", "done"} \/ (pc = "error" /\ err = "TypeError")
Displayed == metrics # <<>>

Events == {div_df[k] : k \in 1..Len(div_df)}
Tried == {candidates[k] : k \in 1..Len(candidates)}

\* C1: with reference date 2025-11-21, a holding of BP yields a Dec event dated
\* 2025-12-15 and a Sep event dated 2026-09-15.
C1_BPDecAndSepEvents ==
    (/\ Forecasted
     /\ today = Date(2025, 11, 21)
     /\ \E i \in 1..Len(df) : df[i].Slice = "BP")
    => /\ \E e \in Events : e.Ticker = "BP" /\ e.Date = Date(2025, 12, 15)
       /\ \E e \in Events : e.Ticker = "BP" /\ e.Date = Date(2026, 9, 15)

\* C2: when the total market value is 0, every weight is 0 and the forward yield
\* handed to the display is 0.
C2_ZeroTotalGivesZeros ==
    (Displayed /\ IsZero(total_now))
    => /\ \A i \in 1..Len(df) : df[i].Weight = Zero
       /\ metrics[2].value = Zero

\* C3: when the total market value is above 0, rendering the metrics does not fail
\* and the expected-income metric is the single number sum(market value) * mean(yield).
C3_ExpectedIncomeIsANumber ==
    (Displayed /\ GtZero(total_now))
    => /\ err = ""
       /\ Len(metrics) >= 3
       /\ metrics[3].value = Mul(total_now, Mean(Column(df, "yield")))

\* C4: a failed quote fetch gives the sentinel price 0 and market value 0, nothing
\* in the fetch loop raises, and the loop always reaches the last row.
C4_FetchLoopReachesLastRow ==
    (Normalized /\ pc # "fetch")
    => /\ err # "StreamlitAPIException"
       /\ Len(prices) = Len(df)
       /\ Valued => \A i \in 1..Len(df) :
                       IsZero(df[i].price) => df[i].MarketValue = Zero

\* C5: no provider request is sent before the input is loaded and normalised; a run
\* with no input or with a required column missing ends with no request sent.
C5_NoFetchBeforeNormalized ==
    /\ (quote_calls + fund_calls > 0)
          => /\ IsGiven(text_input) \/ IsGiven(uploaded_file)
             /\ RequiredCols \subseteq Columns
             /\ pc \notin {"load", "normalize", "stopped"}
    /\ (pc = "stopped" \/ ~(RequiredCols \subseteq Columns))
          => /\ quote_calls = 0 /\ fund_calls = 0
             /\ prices = <<>>
             /\ pc \in {"load", "normalize", "stopped", "error"}

C5_Witness ==
    /\ pc = "error"
    /\ err = "KeyError"
    /\ IsGiven(text_input)
    /\ Columns = RequiredCols \ {"Name"}
    /\ Len(text_input.rows) > 0
    /\ quote_calls = 0 /\ fund_calls = 0

\* C6: every dividend event is dated the 15th and lies in [today, today + 365 days];
\* a (ticker, month) whose resolved date is outside that window yields no event.
C6_EventsInsideWindow ==
    /\ \A e \in Events :
          /\ e.Date.day = 15
          /\ Ordinal(today) <= Ordinal(e.Date)
          /\ Ordinal(e.Date) <= Ordinal(today) + 365
    /\ \A c \in Tried :
          (Ordinal(c.pay_date) < Ordinal(today) \/ Ordinal(c.pay_date) > Ordinal(today) + 365)
          => ~\E e \in Events : e.Ticker = c.Ticker /\ e.Date = c.pay_date

C6_Witness ==
    /\ Forecasted
    /\ \E e \in Events : e.Ticker = "LGEN" /\ e.Date = Date(2026, 11, 15)
    /\ \E c \in Tried : c.Ticker = "LGEN" /\ c.pay_date = Date(2027, 9, 15)

\* The amounts of the events of one month and year, NaN amounts left out.
BucketAmounts(events, key) ==
    LET inKey == SelectSeq(events, LAMBDA e : MonthYearLabel(e.Date) = key)
    IN  NonNa(Column(inKey, "Amount"))

Permuted(events, p) == [k \in 1..Len(events) |-> events[p[k]]]

\* C7: the monthly summary has one bucket per distinct (month, year) of the events,
\* each bucket holds the sum of the amounts of its events, and every permutation of
\* the events gives the same buckets.
C7_MonthlyBuckets ==
    (pc = "done" /\ div_df # <<>>)
    => /\ DOMAIN monthly = {MonthYearLabel(e.Date) : e \in Events}
       /\ \A key \in DOMAIN monthly :
             monthly[key] = SumSkipNa(BucketAmounts(div_df, key))
       /\ \A p \in Permutations(1..Len(div_df)) :
             Monthly(Permuted(div_df, p)) = monthly

C7_Witness ==
    /\ pc = "done"
    /\ \E key \in DOMAIN monthly :
          /\ Len(BucketAmounts(div_df, key)) >= 2
          /\ ~IsZero(monthly[key])
          /\ \E k \in 1..Len(div_df) : div_df[k].Amount # monthly[key]

\* C8: the year of a (ticker, month) is today.year for a month after today's,
\* today.year + 1 for today's month and today.year + 2 for a month before it.
C8_YearResolution ==
    \A c \in Tried :
       c.year = IF c.month_num > today.month THEN today.year
                ELSE IF c.month_num = today.month THEN today.year + 1
                ELSE today.year + 2

C8_Witness ==
    /\ pc = "resolved"
    /\ \E c \in Tried : c.month_num > today.month /\ c.year = today.year
    /\ \E c \in Tried : c.month_num = today.month /\ c.year = today.year + 1
    /\ \E c \in Tried : c.month_num < today.month /\ c.year = today.year + 2

C10_ProgressFractions ==
    /\ \A k \in 1..Len(progress) :
          /\ IsNum(progress[k])
          /\ 0 < progress[k].num /\ progress[k].num <= progress[k].den
    /\ \A k \in 1..(Len(progress) - 1) :
          progress[k].num * progress[k + 1].den <= progress[k + 1].num * progress[k].den
    /\ (Len(df) > 0 /\ Len(progress) = Len(df)) => progress[Len(progress)] = Num(1)
    /\ err # "StreamlitAPIException"

====
